---- MODULE Spec2Model ----
(***************************************************************************)
(* Model of DHT_driver.py: the DHT11 reader read_data(pin) and the polling *)
(* loop under __main__.  Program positions are named after source lines.   *)
(* The single-wire line is the environment: the sensor transmits a frame   *)
(* as runs of identical samples, and every gpio.input() consumes a sample. *)
(***************************************************************************)
EXTENDS Integers, Sequences, FiniteSets, TLC

(* ---------------------------- program constants ------------------------ *)

DHT_pulses == 41

\* an iteration budget one larger
DHT_read_timeout_Long == 300 + 1

DHT_read_timeout == 300

NiceMin == -20

NiceMax == 19

(* ------------------------------- bounds --------------------------------- *)

\* longest regular run of identical samples the sensor produces in Spec
MaxRun == 4

\* number of sample byte values the frames of SpecDecode are drawn from
NByteVals == 4

(* --------------------------- exceptions / values ------------------------ *)

\* raise ReadTimeoutError("Timed out waiting for sensor to being transmission")
StartTimeoutError ==
    [type |-> "ReadTimeoutError",
     message |-> "Timed out waiting for sensor to being transmission"]

\* raise ReadTimeoutError("Timed out reading data pulse")  (both polarities)
PulseTimeoutError ==
    [type |-> "ReadTimeoutError", message |-> "Timed out reading data pulse"]

\* the checksum failure raised as the timeouts' class
ChecksumError_AsTimeout ==
    [type |-> "ReadTimeoutError",
     message |-> "Checksum did not match, data was parsed or received incorrectly"]

\* raise ReadParseError("Checksum did not match, ...")
ChecksumError ==
    [type |-> "ReadParseError",
     message |-> "Checksum did not match, data was parsed or received incorrectly"]

\* a pulse timeout that names its half-pulse
PulseTimeoutErrorAt_WithIndex(k) ==
    [type |-> "ReadTimeoutError", message |-> "Timed out reading data pulse",
     pulse |-> k]

\* the exception raised for half-pulse k (even k: low half of pair k / 2,
\* odd k: high half): lines 73 and 78 raise the same exception for every k
PulseTimeoutErrorAt(k) == PulseTimeoutError

\* os.nice raises PermissionError when an unprivileged process lowers its
\* niceness
PermissionError == [type |-> "PermissionError", message |-> "Operation not permitted"]

NoValue == [type |-> "None"]

\* float(n) of a Python int: exact for the byte range, but a float object
float(n) == [type |-> "float", value |-> n]

\* the pair returned in the wrong order
Reading_Swapped(h, t) == [type |-> "tuple", humidity |-> t, temperature |-> h]

\* return humidity, temperature
Reading(h, t) == [type |-> "tuple", humidity |-> h, temperature |-> t]

\* a loop whose only except clause is the one for ReadParseError
ExceptClause_ParseOnly(e) ==
    IF e.type = "ReadParseError" THEN "L120" ELSE "uncaught"

\* the except clause of the polling loop that catches exception e
ExceptClause(e) ==
    IF e.type = "ReadParseError" THEN "L120"
    ELSE IF e.type = "ReadTimeoutError" THEN "L122"
    ELSE "uncaught"

(* ------------------------------ priority -------------------------------- *)

\* os.nice(inc): the kernel clamps the niceness to its range
os_nice(cur, inc) ==
    LET n == cur + inc
    IN  IF n < NiceMin THEN NiceMin ELSE IF n > NiceMax THEN NiceMax ELSE n

(* ------------------------------ decoding -------------------------------- *)

\* for i in range(2, DHT_pulses * 2, 2): threshold += pulse_counter[i]
RECURSIVE SumLow(_, _)
SumLow(pcnt, k) ==
    IF k >= DHT_pulses * 2 THEN 0 ELSE pcnt[k] + SumLow(pcnt, k + 2)

\* the sum divided by the number of counters summed
ThresholdOf_Average(pcnt) == SumLow(pcnt, 2) \div (DHT_pulses - 1)

\* threshold //= DHT_pulses
ThresholdOf(pcnt) == SumLow(pcnt, 2) \div DHT_pulses

\* a strict comparison: ties become 0
IsOne_Strict(count, thr) == count > thr

\* pulse_counter[i] >= threshold
IsOne(count, thr) == count >= thr

\* data[index] <<= 1 ; if ...: data[index] |= 1
ShiftIn(byte, bit) ==
    LET sh == byte * 2
    IN  IF bit THEN (IF sh % 2 = 0 THEN sh + 1 ELSE sh) ELSE sh

\* the byte index without the offset of the response pair
ByteIndex_NoOffset(k) == (k - 1) \div 16

\* index = (i - 3) // 16
ByteIndex(k) == (k - 3) \div 16

\* for i in range(3, DHT_pulses * 2, 2): ...
RECURSIVE DecodeFrom(_, _, _, _)
DecodeFrom(d, k, pcnt, thr) ==
    IF k >= DHT_pulses * 2 THEN d
    ELSE DecodeFrom([d EXCEPT ![ByteIndex(k)] =
                        ShiftIn(@, IsOne(pcnt[k], thr))],
                    k + 2, pcnt, thr)

\* data = [0 for i in range(5)] followed by the decode loop
DecodeOf(pcnt, thr) == DecodeFrom([b \in 0..4 |-> 0], 3, pcnt, thr)

\* the sum without the mask
Checksum_NoMask(d) == d[0] + d[1] + d[2] + d[3]

\* the sum masked to 7 bits
Checksum_Mask7F(d) == (d[0] + d[1] + d[2] + d[3]) % 128

\* (data[0] + data[1] + data[2] + data[3]) & 0xFF
Checksum(d) == (d[0] + d[1] + d[2] + d[3]) % 256

\* data[4] == ((data[0] + data[1] + data[2] + data[3]) & 0xFF)
ChecksumOk(d) == d[4] = Checksum(d)

(* --------------------------- the sensor's line -------------------------- *)

\* byte values the transmitted frames are built from
ByteSamples == <<75, 26, 255, 0, 128, 1, 170>>

\* values of bytes 0 and 2 (the integer parts)
ByteVals == {ByteSamples[k] : k \in 1..NByteVals}

\* values of bytes 1 and 3 (the fractional parts)
FracVals == {0, 2, 255}

\* the five bytes a sensor transmits for b0..b3: the fifth is their checksum
FrameOf(b0, b1, b2, b3) ==
    [k \in 0..4 |-> IF k = 0 THEN b0 ELSE IF k = 1 THEN b1
                    ELSE IF k = 2 THEN b2 ELSE IF k = 3 THEN b3
                    ELSE (b0 + b1 + b2 + b3) % 256]

\* bit pos (0 = most significant) of a byte
BitOf(byte, pos) == (byte \div (2 ^ (7 - pos))) % 2

\* the j-th bit on the wire (j in 0..39, most significant bit of byte 0
\* first); bit s.flip arrives inverted
TxBit(s, j) ==
    LET b == BitOf(s.frame[j \div 8], j % 8)
    IN  IF j = s.flip THEN 1 - b ELSE b

\* no half-pulse is stuck: the line rests low after half-pulse 81
NoStuck == DHT_pulses * 2

\* a run that never ends
Forever == -1

\* number of consecutive identical samples of run r of sensor s
\* (r = -1: line still high before the response; r = 0, 1: the response
\*  pulse pair; even r: low half of a bit; odd r: high half of a bit)
RunLen(s, r) ==
    IF r = s.stuck \/ r >= NoStuck THEN Forever
    ELSE IF r = -1 THEN s.preRun
    ELSE IF r < 2 THEN s.ackRun
    ELSE IF r % 2 = 0 THEN s.lowRun
    ELSE IF TxBit(s, (r - 3) \div 2) = 1 THEN s.hi1Run ELSE s.hi0Run

\* level of the line during run r: gpio.input(pin_num)
LevelOf(r) == IF r = -1 THEN 1 ELSE IF r >= NoStuck THEN 0 ELSE r % 2

\* the first run of a transmission (the line may already be low)
FirstRun(s) == IF RunLen(s, -1) = 0 THEN 0 ELSE -1

\* the PulseTrain that sampling sensor s to the end leaves in pulse_counter:
\* the sample that ends a polling loop is not counted by the next one
TrainOf(s) == [k \in 0..(DHT_pulses * 2 - 1) |-> RunLen(s, k) - 1]

SensorOf(f, fl, pre, ack, lo, h0, h1, st) ==
    [frame |-> f, flip |-> fl, preRun |-> pre, ackRun |-> ack,
     lowRun |-> lo, hi0Run |-> h0, hi1Run |-> h1, stuck |-> st]

\* what is sampled pulse by pulse in Spec: <<frame, inverted bit, samples
\* before the response>>
SpecAnswers ==
    {<<FrameOf(75, 2, 26, 0), -1, 0>>, <<FrameOf(75, 2, 26, 0), -1, 2>>,
     <<FrameOf(75, 2, 26, 0), 9, 2>>, <<FrameOf(255, 0, 128, 1), -1, 0>>}

\* half-pulses at which a faulty line stays at one level (-1: never answers)
StuckAt == {-1, 0, 1, 20, 21, 81}

\* runs as long as the watchdog allows and one sample longer
EdgeRuns == {DHT_read_timeout, DHT_read_timeout + 1}

\* a line that is low from the first sample on; transmissions whose response
\* pair, bit lows or highs of the 1-bits are EdgeRuns long; and the longest
\* transmission that is read to its end
BoundarySensors ==
    {SensorOf(FrameOf(75, 2, 26, 0), -1, 0, 3, 3, 1, 2, 0)}
    \cup
    {SensorOf(FrameOf(75, 2, 26, 0), -1, 2, r, 3, 1, 2, NoStuck) : r \in EdgeRuns}
    \cup
    {SensorOf(FrameOf(75, 2, 26, 0), -1, 0, 3, r, 1, 2, NoStuck) : r \in EdgeRuns}
    \cup
    {SensorOf(FrameOf(75, 2, 26, 0), -1, 0, 3, 3, 1, r, NoStuck) : r \in EdgeRuns}
    \cup
    {SensorOf(FrameOf(75, 2, 26, 0), -1, DHT_read_timeout, DHT_read_timeout,
              DHT_read_timeout, DHT_read_timeout, DHT_read_timeout, NoStuck)}

\* sensors of Spec: complete transmissions of every timing, and stalled ones
Sensors ==
    {SensorOf(a[1], a[2], a[3], lo + 1, lo, 1, h1, NoStuck) :
        a \in SpecAnswers, lo \in 1..MaxRun, h1 \in 2..MaxRun}
    \cup
    {SensorOf(FrameOf(75, 2, 26, 0), -1, 2, 3, 3, 1, 2, st) : st \in StuckAt}
    \cup
    {SensorOf(FrameOf(75, 2, 26, 0), -1, pre, 3, 3, 1, 2, NoStuck) :
        pre \in {DHT_read_timeout, DHT_read_timeout + 1}}
    \cup
    BoundarySensors

(* ------------------------------- state ---------------------------------- *)

VARIABLES
    pc,             \* position of the program (source line about to run)
    priv,           \* what the platform lets the process do with os.nice
    cpu_priority,   \* what the name cpu_priority is bound to
    nice,           \* niceness of the process
    nice0,          \* niceness when the current read raised the priority
    pinMode,        \* gpio.setup direction of the pin
    pinOut,         \* level last written with gpio.output
    ops,            \* line operations of the current read, in order
    c,              \* timeout counter of the start wait
    i,              \* loop variable of the sampling loop
    pulse_counter,  \* the PulseTrain
    threshold,      \* local threshold (-1: not yet assigned)
    data,           \* local data (<<>>: not yet assigned)
    retval,         \* what read_data returned
    exc,            \* what read_data raised
    raisedAt,       \* position of the raise statement
    report,         \* what this turn of the polling loop printed or logged
    sensor,         \* the transmission the sensor answers with
    run,            \* the run of samples the line is in
    left,           \* samples left in that run (Forever: it never ends)
    samples,        \* gpio.input calls of the current read
    streak          \* level and number of the latest identical samples

vars == <<pc, priv, cpu_priority, nice, nice0, pinMode, pinOut, ops, c, i,
          pulse_counter, threshold, data, retval, exc, raisedAt, report,
          sensor, run, left, samples, streak>>

progVars == <<priv, cpu_priority, nice, nice0>>

pinVars == <<pinMode, pinOut, ops>>

localVars == <<c, i, pulse_counter, threshold, data>>

resultVars == <<retval, exc, raisedAt>>

lineVars == <<sensor, run, left, samples, streak>>

NoStreak == [level |-> -1, len |-> 0]

NiceStart == {NiceMin, -5, 0, NiceMax}

Privs == {"root", "user", "no_nice"}

ZeroTrain == [k \in 0..(DHT_pulses * 2 - 1) |-> 0]

IdleSensor == SensorOf(FrameOf(0, 0, 0, 0), -1, 0, 1, 1, 1, 1, -1)

Init ==
    /\ pc = "L18"
    /\ priv \in Privs
    /\ cpu_priority = "unbound"
    /\ nice \in NiceStart
    /\ nice0 = nice
    /\ pinMode = "unset"
    /\ pinOut = 0
    /\ ops = <<>>
    /\ c = 0
    /\ i = 0
    /\ pulse_counter = ZeroTrain
    /\ threshold = -1
    /\ data = <<>>
    /\ retval = NoValue
    /\ exc = NoValue
    /\ raisedAt = "none"
    /\ report = "none"
    /\ sensor = IdleSensor
    /\ run = -1
    /\ left = Forever
    /\ samples = 0
    /\ streak = NoStreak

(* --------------------------- import-time probe -------------------------- *)

\* the probe's failure goes unnoticed
ProbeSucceeds_Unchecked == TRUE

\* lines 19-21: os.nice is there and the process may lower its niceness
ProbeSucceeds == priv = "root"

\* lines 18-30: bind cpu_priority to os.nice if nice(-1); nice(1) works,
\* to the no-op otherwise
ImportProbe ==
    /\ pc = "L18"
    /\ pc' = "L116"
    /\ IF ProbeSucceeds
       THEN /\ cpu_priority' = "os.nice"
            /\ nice' = os_nice(os_nice(nice, -1), 1)
       ELSE /\ cpu_priority' = "spoof"
            /\ nice' = nice
    /\ nice0' = nice'
    /\ UNCHANGED <<priv, pinVars, localVars, resultVars, report, lineVars>>

\* cpu_priority(priority_increment): the niceness after the call
CallPriority(inc) ==
    IF cpu_priority = "os.nice" THEN os_nice(nice, inc) ELSE nice

(* ------------------------------ read_data ------------------------------- *)

\* lines 116-118 and 40-45: the loop calls read_data, which makes its locals
CallRead ==
    /\ pc = "L116"
    /\ pc' = "L48"
    /\ c' = 0
    /\ i' = 0
    /\ pulse_counter' = ZeroTrain
    /\ threshold' = -1
    /\ data' = <<>>
    /\ retval' = NoValue
    /\ exc' = NoValue
    /\ raisedAt' = "none"
    /\ ops' = <<>>
    /\ report' = "none"
    /\ UNCHANGED <<progVars, pinMode, pinOut, lineVars>>

\* line 48: gpio.setup(pin_num, gpio.OUT)
SetupOut ==
    /\ pc = "L48"
    /\ pc' = "L49"
    /\ pinMode' = "OUT"
    /\ ops' = Append(ops, "OUT")
    /\ UNCHANGED <<progVars, pinOut, localVars, resultVars, report, lineVars>>

\* line 49: gpio.output(pin_num, 1)
OutputHigh ==
    /\ pc = "L49"
    /\ pc' = "L50"
    /\ pinOut' = 1
    /\ ops' = Append(ops, "high")
    /\ UNCHANGED <<progVars, pinMode, localVars, resultVars, report, lineVars>>

\* the high level is held for 20 ms only
SleepHigh_Short ==
    /\ pc = "L50"
    /\ pc' = "L51"
    /\ ops' = Append(ops, "sleep20")
    /\ UNCHANGED <<progVars, pinMode, pinOut, localVars, resultVars, report,
                   lineVars>>

\* line 50: sleep(0.5)
SleepHigh ==
    /\ pc = "L50"
    /\ pc' = "L51"
    /\ ops' = Append(ops, "sleep500")
    /\ UNCHANGED <<progVars, pinMode, pinOut, localVars, resultVars, report,
                   lineVars>>

\* line 51: gpio.output(pin_num, 0)
OutputLow ==
    /\ pc = "L51"
    /\ pc' = "L52"
    /\ pinOut' = 0
    /\ ops' = Append(ops, "low")
    /\ UNCHANGED <<progVars, pinMode, localVars, resultVars, report, lineVars>>

\* line 52: sleep(0.02)
SleepLow ==
    /\ pc = "L52"
    /\ pc' = "L57"
    /\ ops' = Append(ops, "sleep20")
    /\ UNCHANGED <<progVars, pinMode, pinOut, localVars, resultVars, report,
                   lineVars>>

\* os.nice(inc) is refused: a negative increment without the privilege
PriorityDenied(inc) == cpu_priority = "os.nice" /\ inc < 0 /\ priv # "root"

\* line 57: cpu_priority(-20)
RaisePriority ==
    /\ pc = "L57"
    /\ nice0' = nice
    /\ IF PriorityDenied(-20)
       THEN /\ pc' = "raised"
            /\ exc' = PermissionError
            /\ raisedAt' = "L57"
            /\ nice' = nice
       ELSE /\ pc' = "L60"
            /\ nice' = CallPriority(-20)
            /\ UNCHANGED <<exc, raisedAt>>
    /\ UNCHANGED <<priv, cpu_priority, pinVars, localVars, retval, report,
                   lineVars>>

\* lines 60-61: gpio.setup(pin_num, gpio.IN); c = 0.  The woken sensor
\* answers with one of the transmissions.
SetupIn ==
    /\ pc = "L60"
    /\ pc' = "L62"
    /\ pinMode' = "IN"
    /\ ops' = Append(ops, "IN")
    /\ c' = 0
    /\ \E s \in Sensors :
         /\ sensor' = s
         /\ run' = FirstRun(s)
         /\ left' = RunLen(s, FirstRun(s))
    /\ samples' = 0
    /\ streak' = NoStreak
    /\ UNCHANGED <<progVars, pinOut, i, pulse_counter, threshold, data,
                   resultVars, report>>

(* ------------------------------- sampling ------------------------------- *)

\* gpio.input(pin_num): the level of the line at this sample
Sample == LevelOf(run)

\* the line one sample later
LineAfterSample ==
    IF left = Forever THEN <<run, Forever>>
    ELSE IF left = 1 THEN <<run + 1, RunLen(sensor, run + 1)>>
    ELSE <<run, left - 1>>

\* the latest identical samples once a sample of this level is taken
StreakAfter(level) ==
    IF streak.level = level
    THEN [level |-> level, len |-> streak.len + 1]
    ELSE [level |-> level, len |-> 1]

TakeSample ==
    /\ run' = LineAfterSample[1]
    /\ left' = LineAfterSample[2]
    /\ sensor' = sensor
    /\ samples' = samples + 1
    /\ streak' = StreakAfter(Sample)

\* the start wait gives up one iteration late
StartTimedOut_Late(cnt) == cnt = DHT_read_timeout + 1

\* the start wait gives up one iteration early
StartTimedOut_Early(cnt) == cnt = DHT_read_timeout - 1

\* line 63: c == DHT_read_timeout
StartTimedOut(cnt) == cnt = DHT_read_timeout

\* lines 62-65: one test of  while gpio.input(pin_num)  and its body
StartWait ==
    /\ pc = "L62"
    /\ TakeSample
    /\ IF Sample = 1
       THEN IF StartTimedOut(c)
            THEN /\ pc' = "raised"
                 /\ exc' = StartTimeoutError
                 /\ raisedAt' = "L64"
                 /\ UNCHANGED <<c, i>>
            ELSE /\ c' = c + 1
                 /\ UNCHANGED <<pc, exc, raisedAt, i>>
       ELSE /\ pc' = "L70"
            /\ i' = 0
            /\ UNCHANGED <<c, exc, raisedAt>>
    /\ UNCHANGED <<progVars, pinVars, pulse_counter, threshold, data, retval,
                   report>>

\* a low half-pulse that reaches the timeout leaves its loop instead of
\* raising
LowLoop_Break ==
    /\ pc = "L70"
    /\ TakeSample
    /\ IF Sample = 0
       THEN /\ pulse_counter' = [pulse_counter EXCEPT ![i] = @ + 1]
            /\ pc' = IF pulse_counter'[i] = DHT_read_timeout THEN "L75" ELSE pc
            /\ UNCHANGED <<exc, raisedAt>>
       ELSE /\ pc' = "L75"
            /\ UNCHANGED <<pulse_counter, exc, raisedAt>>
    /\ UNCHANGED <<progVars, pinVars, c, i, threshold, data, retval, report>>

\* lines 70-73: one test of  while not gpio.input(pin_num)  and its body
LowLoop ==
    /\ pc = "L70"
    /\ TakeSample
    /\ IF Sample = 0
       THEN /\ pulse_counter' = [pulse_counter EXCEPT ![i] = @ + 1]
            /\ IF pulse_counter'[i] = DHT_read_timeout
               THEN /\ pc' = "raised"
                    /\ exc' = PulseTimeoutErrorAt(i)
                    /\ raisedAt' = "L73"
               ELSE UNCHANGED <<pc, exc, raisedAt>>
       ELSE /\ pc' = "L75"
            /\ UNCHANGED <<pulse_counter, exc, raisedAt>>
    /\ UNCHANGED <<progVars, pinVars, c, i, threshold, data, retval, report>>

\* lines 75-78 and 68-69: one test of  while gpio.input(pin_num)  and its
\* body; when the loop ends, the for loop goes to the next pulse pair
HighLoop ==
    /\ pc = "L75"
    /\ TakeSample
    /\ IF Sample = 1
       THEN /\ pulse_counter' = [pulse_counter EXCEPT ![i + 1] = @ + 1]
            /\ IF pulse_counter'[i + 1] = DHT_read_timeout
               THEN /\ pc' = "raised"
                    /\ exc' = PulseTimeoutErrorAt(i + 1)
                    /\ raisedAt' = "L78"
               ELSE UNCHANGED <<pc, exc, raisedAt>>
            /\ i' = i
       ELSE /\ IF i + 2 < DHT_pulses * 2
               THEN /\ pc' = "L70"
                    /\ i' = i + 2
               ELSE /\ pc' = "L81"
                    /\ i' = i
            /\ UNCHANGED <<pulse_counter, exc, raisedAt>>
    /\ UNCHANGED <<progVars, pinVars, c, threshold, data, retval, report>>

\* line 81: cpu_priority(20)
RestorePriority ==
    /\ pc = "L81"
    /\ pc' = "L84"
    /\ nice' = CallPriority(20)
    /\ UNCHANGED <<priv, cpu_priority, nice0, pinVars, localVars, resultVars,
                   report, lineVars>>

(* ------------------------- decoding and validation ---------------------- *)

\* lines 84-88
ComputeThreshold ==
    /\ pc = "L84"
    /\ pc' = "L94"
    /\ threshold' = ThresholdOf(pulse_counter)
    /\ UNCHANGED <<progVars, pinVars, c, i, pulse_counter, data, resultVars,
                   report, lineVars>>

\* lines 94-99
Decode ==
    /\ pc = "L94"
    /\ pc' = "L104"
    /\ data' = DecodeOf(pulse_counter, threshold)
    /\ UNCHANGED <<progVars, pinVars, c, i, pulse_counter, threshold,
                   resultVars, report, lineVars>>

\* a checksum mismatch starts the wake-up again instead of raising
Validate_Retry ==
    /\ pc = "L104"
    /\ IF ChecksumOk(data)
       THEN /\ pc' = "returned"
            /\ retval' = Reading(float(data[0]), float(data[2]))
       ELSE /\ pc' = "L48"
            /\ retval' = retval
    /\ UNCHANGED <<exc, raisedAt, progVars, pinVars, localVars, report,
                   lineVars>>

\* lines 104-110
Validate ==
    /\ pc = "L104"
    /\ IF ChecksumOk(data)
       THEN /\ pc' = "returned"
            /\ retval' = Reading(float(data[0]), float(data[2]))
            /\ UNCHANGED <<exc, raisedAt>>
       ELSE /\ pc' = "raised"
            /\ exc' = ChecksumError
            /\ raisedAt' = "L108"
            /\ retval' = retval
    /\ UNCHANGED <<progVars, pinVars, localVars, report, lineVars>>

(* ---------------------------- the polling loop -------------------------- *)

\* lines 118-119: hum, temp = read_data(pin); print(...)
PrintReading ==
    /\ pc = "returned"
    /\ pc' = "L124"
    /\ report' = [stream |-> "print", humidity |-> retval.humidity,
                  temperature |-> retval.temperature]
    /\ UNCHANGED <<progVars, pinVars, localVars, resultVars, lineVars>>

\* lines 120-121: except ReadParseError
ExceptParse ==
    /\ pc = "raised"
    /\ ExceptClause(exc) = "L120"
    /\ pc' = "L124"
    /\ report' = [stream |-> "warning",
                  message |-> "Data could not be parsed properly"]
    /\ UNCHANGED <<progVars, pinVars, localVars, resultVars, lineVars>>

\* lines 122-123: except ReadTimeoutError as e
ExceptTimeout ==
    /\ pc = "raised"
    /\ ExceptClause(exc) = "L122"
    /\ pc' = "L124"
    /\ report' = [stream |-> "warning", message |-> exc.message]
    /\ UNCHANGED <<progVars, pinVars, localVars, resultVars, lineVars>>

\* line 124: sleep(10), then the next turn of  while True
SleepLoop ==
    /\ pc = "L124"
    /\ pc' = "L116"
    /\ UNCHANGED <<progVars, pinVars, localVars, resultVars, report, lineVars>>

Next ==
    \/ ImportProbe
    \/ CallRead
    \/ SetupOut
    \/ OutputHigh
    \/ SleepHigh
    \/ OutputLow
    \/ SleepLow
    \/ RaisePriority
    \/ SetupIn
    \/ StartWait
    \/ LowLoop
    \/ HighLoop
    \/ RestorePriority
    \/ ComputeThreshold
    \/ Decode
    \/ Validate
    \/ PrintReading
    \/ ExceptParse
    \/ ExceptTimeout
    \/ SleepLoop

Spec == Init /\ [][Next]_vars

\* the program started at the default niceness
InitLive == Init /\ nice = 0

\* the program is one sequential process that keeps running: sleep returns
\* and every statement that can execute does
SpecLive == InitLive /\ [][Next]_vars /\ WF_vars(Next)

(* ------------------- decoding of complete PulseTrains ------------------- *)

\* run lengths <<response, bit low, high of a 0, high of a 1>> whose counters
\* are 50/20/80, sit on the threshold, give threshold 0, fall below the
\* threshold, or come close to the timeout
DecodeTimings ==
    {<<51, 51, 21, 81>>, <<1, 3, 1, 2>>, <<2, 1, 1, 2>>, <<5, 4, 1, 2>>,
     <<DHT_read_timeout, DHT_read_timeout, 2, DHT_read_timeout - 8>>}

\* complete transmissions of every frame over ByteVals, intact or with one
\* of the 32 bits of bytes 0..3 inverted on the wire
DecodeSensors ==
    {SensorOf(FrameOf(b0, b1, b2, b3), fl, 0, t[1], t[2], t[3], t[4], NoStuck) :
        b0 \in ByteVals, b1 \in FracVals, b2 \in ByteVals, b3 \in FracVals,
        fl \in -1..31, t \in DecodeTimings}

\* samples of runs k..81 of sensor s
RECURSIVE RunSum(_, _)
RunSum(s, k) ==
    IF k >= DHT_pulses * 2 THEN 0 ELSE RunLen(s, k) + RunSum(s, k + 1)

\* samples a complete read of sensor s takes: every run and the low sample
\* that ends the last high half
SamplesOf(s) == s.preRun + RunSum(s, 0) + 1

\* read_data at line 81: sampling has filled pulse_counter from a complete
\* transmission
InitDecode ==
    /\ pc = "L81"
    /\ priv = "root"
    /\ cpu_priority = "os.nice"
    /\ nice0 = 0
    /\ nice = NiceMin
    /\ pinMode = "IN"
    /\ pinOut = 0
    /\ ops = <<"OUT", "high", "sleep500", "low", "sleep20", "IN">>
    /\ c = 0
    /\ i = DHT_pulses * 2 - 2
    /\ sensor \in DecodeSensors
    /\ pulse_counter = TrainOf(sensor)
    /\ threshold = -1
    /\ data = <<>>
    /\ retval = NoValue
    /\ exc = NoValue
    /\ raisedAt = "none"
    /\ report = "none"
    /\ run = NoStuck
    /\ left = Forever
    /\ samples = SamplesOf(sensor)
    /\ streak = [level |-> 0, len |-> 1]

NextDecode ==
    \/ RestorePriority
    \/ ComputeThreshold
    \/ Decode
    \/ Validate

SpecDecode == InitDecode /\ [][NextDecode]_vars

(* ------------------------------- claims --------------------------------- *)

\* read_data has ended: it returned or it raised
ReadEnded == pc \in {"returned", "raised"}

\* read_data ended with one of its two timeouts
TimedOut == pc = "raised" /\ raisedAt \in {"L64", "L73", "L78"}

\* read_data ended with the timeout of a half-pulse
PulseTimedOut == pc = "raised" /\ raisedAt \in {"L73", "L78"}

\* the half-pulse whose polling loop raised
TimedOutHalfPulse == IF raisedAt = "L73" THEN i ELSE i + 1

\* C1: the scheduling priority raised before sampling is back at the level
\* it had before the read on every exit of the sampling stage; stated for
\* the exits the claim singles out: after a read that ends with a timeout
\* the niceness is the one the process had before the priority was raised.
C1_RestoredAfterTimeout == TimedOut => nice = nice0

\* C2 (as claimed): start timeout, pulse timeout and checksum mismatch reach
\* the caller as three different error kinds: the kind of a failure of one
\* cause is not the kind raised for either of the other two causes, and the
\* caller's except clauses tell them apart.
C2_ThreeDistinctKinds ==
    pc = "raised" =>
        /\ raisedAt = "L64" =>
              /\ exc.type \notin {PulseTimeoutErrorAt(0).type, ChecksumError.type}
              /\ ExceptClause(exc) # ExceptClause(PulseTimeoutErrorAt(0))
        /\ raisedAt \in {"L73", "L78"} =>
              /\ exc.type \notin {StartTimeoutError.type, ChecksumError.type}
              /\ ExceptClause(exc) # ExceptClause(StartTimeoutError)
        /\ raisedAt = "L108" =>
              exc.type \notin {StartTimeoutError.type, PulseTimeoutErrorAt(0).type}

\* C2 (amended): read_data signals two error kinds.  Both timeouts are a
\* ReadTimeoutError, caught by the same except clause and told apart only by
\* their message; a checksum mismatch is a ReadParseError, caught by the
\* other clause.
C2_TwoKinds ==
    pc = "raised" =>
        /\ raisedAt = "L64" =>
              /\ exc.type = "ReadTimeoutError"
              /\ ExceptClause(exc) = "L122"
              /\ exc.message = "Timed out waiting for sensor to being transmission"
        /\ raisedAt \in {"L73", "L78"} =>
              /\ exc.type = "ReadTimeoutError"
              /\ ExceptClause(exc) = "L122"
              /\ exc.message = "Timed out reading data pulse"
        /\ raisedAt = "L108" =>
              /\ exc.type = "ReadParseError"
              /\ ExceptClause(exc) = "L120"

\* a pulse timeout has reached the caller's clause for timeouts
C2_Witness ==
    /\ pc = "L124"
    /\ raisedAt \in {"L73", "L78"}
    /\ exc.type = "ReadTimeoutError"
    /\ report = [stream |-> "warning", message |-> "Timed out reading data pulse"]

\* C3 (as claimed): a pulse timeout identifies the half-pulse that timed out
\* (its index and polarity): the failure differs from the one raised for
\* every other half-pulse.
C3_IdentifiesHalfPulse ==
    PulseTimedOut =>
        \A k \in 0..(DHT_pulses * 2 - 1) :
            k # TimedOutHalfPulse => exc # PulseTimeoutErrorAt(k)

\* C3 (amended): a pulse timeout is the same ReadTimeoutError with the fixed
\* message "Timed out reading data pulse" for every pulse index and both
\* polarities; it carries neither the index nor the polarity.
C3_SameFailureEveryHalfPulse ==
    PulseTimedOut =>
        /\ exc = [type |-> "ReadTimeoutError",
                  message |-> "Timed out reading data pulse"]
        /\ DOMAIN exc = {"type", "message"}

\* the low half of pulse pair 10 has timed out
C3_Witness ==
    /\ pc = "raised"
    /\ raisedAt = "L73"
    /\ i = 20
    /\ pulse_counter[20] = DHT_read_timeout

\* the high-duration counter of data bit j (j in 0..39): odd indices 3..81
HighOf(pcnt, j) == pcnt[3 + 2 * j]

\* bit j (most significant bit of byte 0 first) of the five bytes f
FrameBit(f, j) == (f[j \div 8] \div (2 ^ (7 - (j % 8)))) % 2

\* the 40 data high-duration counters of pcnt are at or above the computed
\* threshold exactly for the 1-bits of the five bytes f
Encodes(pcnt, f) ==
    LET thr == ThresholdOf(pcnt)
    IN  \A j \in 0..39 : (HighOf(pcnt, j) >= thr) <=> (FrameBit(f, j) = 1)

\* the five bytes that arrive when bit fl of f is inverted (fl = -1: none)
Flipped(f, fl) ==
    [k \in 0..4 |->
        IF fl \in (8 * k)..(8 * k + 7)
        THEN (IF FrameBit(f, fl) = 1 THEN f[k] - 2 ^ (7 - (fl % 8))
                                     ELSE f[k] + 2 ^ (7 - (fl % 8)))
        ELSE f[k]]

\* C4: round trip.  A PulseTrain whose data high-duration counters encode
\* the bytes B0..B3 and their checksum (B0+B1+B2+B3) & 0xFF, most significant
\* bit first, relative to the computed threshold makes read_data return
\* (float(B0), float(B2)) and raise nothing.
C4_RoundTrip ==
    (ReadEnded /\ sensor.flip = -1 /\ Encodes(pulse_counter, sensor.frame)) =>
        /\ pc = "returned"
        /\ exc = NoValue
        /\ retval = [type |-> "tuple",
                     humidity |-> [type |-> "float", value |-> sensor.frame[0]],
                     temperature |-> [type |-> "float", value |-> sensor.frame[2]]]

\* a train encoding bytes whose sum exceeds 255 has been read back
C4_Witness ==
    /\ pc = "returned"
    /\ sensor.flip = -1
    /\ Encodes(pulse_counter, sensor.frame)
    /\ sensor.frame[0] + sensor.frame[1] + sensor.frame[2] + sensor.frame[3] > 255
    /\ sensor.frame[4] = (sensor.frame[0] + sensor.frame[1] + sensor.frame[2]
                          + sensor.frame[3]) % 256
    /\ retval.humidity.value = sensor.frame[0]

\* C5: a PulseTrain that encodes B0..B3 with one bit of B0..B3 inverted and
\* the checksum byte of the original B0..B3 makes read_data raise the
\* checksum mismatch, never return a reading.
C5_SingleBitFlipDetected ==
    (ReadEnded /\ sensor.flip \in 0..31
        /\ Encodes(pulse_counter, Flipped(sensor.frame, sensor.flip))) =>
        /\ pc = "raised"
        /\ raisedAt = "L108"
        /\ exc = [type |-> "ReadParseError",
                  message |-> "Checksum did not match, data was parsed or received incorrectly"]
        /\ retval = NoValue

\* the most significant bit of byte 0 was inverted and the read raised
C5_Witness ==
    /\ pc = "raised"
    /\ raisedAt = "L108"
    /\ sensor.flip = 0
    /\ Encodes(pulse_counter, Flipped(sensor.frame, sensor.flip))
    /\ data[0] # sensor.frame[0]
    /\ data[4] = sensor.frame[4]

\* every low-duration counter other than index 0 has the value v
AllLowsAre(pcnt, v) ==
    \A k \in 1..(DHT_pulses - 1) : pcnt[2 * k] = v

\* C6: the threshold is the average of the low-duration counters other than
\* the first pair: when all of them have the same value v, the computed
\* threshold is v.
C6_ThresholdIsAverage ==
    threshold # -1 => (\A v \in 0..DHT_read_timeout :
                          AllLowsAre(pulse_counter, v) => threshold = v)

\* C8: a data high-duration counter is classified as bit 1 exactly if it is
\* at or above the threshold (a counter equal to the threshold is a 1), for
\* every threshold including 0.
C8_TieIsOne ==
    data # <<>> =>
        \A j \in 0..39 :
            /\ HighOf(pulse_counter, j) = threshold => FrameBit(data, j) = 1
            /\ HighOf(pulse_counter, j) > threshold => FrameBit(data, j) = 1
            /\ HighOf(pulse_counter, j) < threshold => FrameBit(data, j) = 0

\* a counter equal to a positive threshold was decoded as a 1 next to a
\* smaller counter decoded as a 0
C8_Witness ==
    /\ data # <<>>
    /\ threshold > 0
    /\ \E j \in 0..39 :
          HighOf(pulse_counter, j) = threshold /\ FrameBit(data, j) = 1
    /\ \E j \in 0..39 :
          HighOf(pulse_counter, j) < threshold /\ FrameBit(data, j) = 0

\* sampling ran to its end: every half-pulse of a complete transmission
\* has been counted
SamplingCompleted ==
    /\ sensor.stuck = NoStuck
    /\ run = NoStuck
    /\ pulse_counter = TrainOf(sensor)

\* C7: read_data returns a reading if and only if sampling completed and
\* decoded byte 4 equals (byte0 + byte1 + byte2 + byte3) & 0xFF; the reading
\* is exactly (float(byte0), float(byte2)); when the checksum differs it
\* raises the checksum mismatch, which carries no decoded byte.
C7_ReadingIffChecksum ==
    ReadEnded =>
        /\ pc = "returned" <=>
              /\ SamplingCompleted
              /\ data # <<>>
              /\ data[4] = (data[0] + data[1] + data[2] + data[3]) % 256
        /\ pc = "returned" =>
              /\ retval = [type |-> "tuple",
                           humidity |-> [type |-> "float", value |-> data[0]],
                           temperature |-> [type |-> "float", value |-> data[2]]]
              /\ exc = NoValue
        /\ (SamplingCompleted /\ pc = "raised") =>
              /\ data[4] # (data[0] + data[1] + data[2] + data[3]) % 256
              /\ raisedAt = "L108"
              /\ exc = [type |-> "ReadParseError",
                        message |-> "Checksum did not match, data was parsed or received incorrectly"]
              /\ DOMAIN exc = {"type", "message"}
              /\ retval = NoValue

\* a reading was returned from bytes whose fractional parts are not zero
C7_Witness ==
    /\ pc = "returned"
    /\ SamplingCompleted
    /\ data[1] # 0
    /\ data[0] # data[2]
    /\ retval.humidity.value = data[0]
    /\ retval.temperature.value = data[2]

\* the line is not seen low by any of the DHT_read_timeout + 1 tests of the
\* start wait
NeverLowInStartWait ==
    sensor.stuck = -1 \/ sensor.preRun > DHT_read_timeout

\* the read is past the hand-off of the line to input mode
HandedOff == pc \in {"L62", "L70", "L75", "L81", "L84", "L94", "L104",
                     "returned", "raised"}

\* C9: if the line is not seen low within the start wait, read_data raises
\* the start timeout: no half-pulse counter is sampled, nothing is decoded
\* or validated, and no reading is returned.
C9_StartTimeout ==
    /\ (HandedOff /\ NeverLowInStartWait) =>
          /\ pc \in {"L62", "raised"}
          /\ pc = "raised" => raisedAt = "L64"
    /\ (pc = "raised" /\ raisedAt = "L64") =>
          /\ c = 300
          /\ exc = [type |-> "ReadTimeoutError",
                    message |-> "Timed out waiting for sensor to being transmission"]
          /\ \A k \in 0..81 : pulse_counter[k] = 0
          /\ threshold = -1
          /\ data = <<>>
          /\ retval = NoValue

\* a line that stayed high has ended the read with the start timeout
C9_Witness ==
    /\ pc = "raised"
    /\ raisedAt = "L64"
    /\ sensor.stuck = -1
    /\ run = -1

\* the sensor answers in time with a complete, intact transmission whose
\* timing separates the bits
ValidTransmission ==
    /\ sensor.stuck = NoStuck
    /\ sensor.flip = -1
    /\ sensor.preRun <= DHT_read_timeout
    /\ \A k \in 0..(DHT_pulses * 2 - 1) : RunLen(sensor, k) <= DHT_read_timeout
    /\ Encodes(TrainOf(sensor), sensor.frame)

\* C10: when the priority cannot be raised (permission denied, or no
\* os.nice), the read does not fail for it: a read of a valid transmission
\* goes through wake-up, sampling, decoding and validation and returns the
\* reading.
C10_DeniedPriorityDoesNotBlock ==
    /\ priv # "root" => (cpu_priority # "os.nice" /\ exc.type # "PermissionError")
    /\ (priv # "root" /\ HandedOff) =>
        /\ nice = nice0
        /\ ops = <<"OUT", "high", "sleep500", "low", "sleep20", "IN">>
    /\ (priv # "root" /\ ReadEnded /\ ValidTransmission) =>
        /\ pc = "returned"
        /\ SamplingCompleted
        /\ data = sensor.frame
        /\ retval = [type |-> "tuple",
                     humidity |-> [type |-> "float", value |-> sensor.frame[0]],
                     temperature |-> [type |-> "float", value |-> sensor.frame[2]]]

\* a process denied the permission has returned the reading
C10_Witness ==
    /\ priv = "user"
    /\ cpu_priority = "spoof"
    /\ pc = "returned"
    /\ ValidTransmission
    /\ retval.humidity.value = 75

\* the wake-up sequence of lines 48-60
WakeUp == <<"OUT", "high", "sleep500", "low", "sleep20", "IN">>

\* the stage of the pipeline a program position belongs to: 0 Idle,
\* 1 Initializing, 2 AwaitingStart, 3 Sampling, 4 Decoding, 5 Validating,
\* 6 terminal
StageOf(p) ==
    IF p \in {"L18", "L116", "L124"} THEN 0
    ELSE IF p \in {"L48", "L49", "L50", "L51", "L52", "L57", "L60"} THEN 1
    ELSE IF p = "L62" THEN 2
    ELSE IF p \in {"L70", "L75", "L81"} THEN 3
    ELSE IF p \in {"L84", "L94"} THEN 4
    ELSE IF p = "L104" THEN 5
    ELSE 6

\* one step of a call keeps to the order of the stages
StageStep ==
    \/ StageOf(pc) = 0 /\ StageOf(pc') \in {0, 1}
    \/ StageOf(pc) = 6 /\ StageOf(pc') = 0
    \/ /\ StageOf(pc) \in 1..5
       /\ \/ StageOf(pc') \in {StageOf(pc), StageOf(pc) + 1}
          \/ pc' = "raised" /\ StageOf(pc) \in {2, 3}

\* the pulse pairs are sampled in index order, from 0 to 80
PairStep ==
    /\ (pc = "L62" /\ pc' = "L70") => i' = 0
    /\ (pc \in {"L70", "L75"} /\ pc' \in {"L70", "L75"}) =>
          (i' = i \/ (pc = "L75" /\ pc' = "L70" /\ i' = i + 2))
    /\ (pc = "L75" /\ pc' = "L81") => i = DHT_pulses * 2 - 2

\* a call ends in exactly one of the four terminal states
OneTerminal ==
    /\ pc = "returned" => (retval # NoValue /\ exc = NoValue)
    /\ pc = "raised" =>
          /\ retval = NoValue
          /\ <<raisedAt, exc.message>> \in
                {<<"L64", "Timed out waiting for sensor to being transmission">>,
                 <<"L73", "Timed out reading data pulse">>,
                 <<"L78", "Timed out reading data pulse">>,
                 <<"L108", "Checksum did not match, data was parsed or received incorrectly">>}

\* the wake-up is under way in stage 1 and has been done once afterwards
WakeUpOnce ==
    /\ StageOf(pc) = 1 => (Len(ops) < 6 /\ ops = SubSeq(WakeUp, 1, Len(ops)))
    /\ StageOf(pc) \in 2..6 => ops = WakeUp

\* C11: every call of read_data goes through the stages in the order Idle,
\* Initializing, AwaitingStart, Sampling (pairs in index order), Decoding,
\* Validating and ends in exactly one terminal state; no stage is entered
\* again and the wake-up sequence is performed exactly once per call.
C11_StagesInOrder ==
    [][StageStep /\ PairStep /\ OneTerminal' /\ WakeUpOnce']_vars

\* a call went through every stage and ended in the checksum failure
C11_Witness ==
    /\ pc = "raised"
    /\ raisedAt = "L108"
    /\ ops = WakeUp
    /\ i = DHT_pulses * 2 - 2
    /\ threshold # -1
    /\ data # <<>>

\* milliseconds a line operation holds the line: sleep(0.5), sleep(0.02)
HoldMs(op) == IF op = "sleep500" THEN 500 ELSE IF op = "sleep20" THEN 20 ELSE 0

\* this step reads the pin
ReadsPin == samples' = samples + 1

\* this step writes the pin
WritesPin == Len(ops') = Len(ops) + 1 /\ ops'[Len(ops')] \in {"high", "low"}

\* the line operations done so far are the first ones of: output mode, high,
\* hold >= 500 ms, low, hold >= 20 ms, input mode
LineOpsInOrder ==
    /\ Len(ops) <= 6
    /\ \A k \in 1..Len(ops) :
          /\ k = 1 => ops[k] = "OUT"
          /\ k = 2 => ops[k] = "high"
          /\ k = 3 => HoldMs(ops[k]) >= 500
          /\ k = 4 => ops[k] = "low"
          /\ k = 5 => HoldMs(ops[k]) >= 20
          /\ k = 6 => ops[k] = "IN"

\* C12: in every call the line operations come in the order output mode,
\* high, hold of at least 500 ms, low, hold of at least 20 ms, input mode,
\* all of them before the first sample; the pin is read only in input mode
\* and written only in output mode, never after the hand-off.
C12_WakeUpBeforeSampling ==
    [][/\ LineOpsInOrder'
       /\ ReadsPin => (pinMode = "IN" /\ Len(ops) = 6 /\ UNCHANGED pinVars)
       /\ WritesPin => (pinMode = "OUT" /\ Len(ops) < 6 /\ samples' = samples)
       /\ pinMode' # pinMode => Len(ops') \in {1, 6}]_vars

\* the first sample of a call has been taken after the whole wake-up
C12_Witness ==
    /\ samples = 1
    /\ pinMode = "IN"
    /\ pinOut = 0
    /\ ops = <<"OUT", "high", "sleep500", "low", "sleep20", "IN">>
    /\ pc \in {"L62", "L70"}

\* the loop is at its delay and this turn has logged a failure as a warning
FailureReported ==
    IF pc = "L124"
    THEN report \in
            {[stream |-> "warning", message |-> m] :
                m \in {"Timed out waiting for sensor to being transmission",
                       "Timed out reading data pulse",
                       "Data could not be parsed properly"}}
    ELSE FALSE

\* C13: in the polling loop a read that fails, with any of the failures,
\* does not end the loop: the failure is reported as a warning, the loop
\* reaches its fixed delay, and another read is started, after any sequence
\* of earlier reads.
C13_LoopSurvivesFailure ==
    [](pc = "raised" =>
          <>(FailureReported /\ <>(pc = "L48")))

\* a read is started after a turn of the loop that reported a pulse timeout
\* at the last half-pulse
C13_Witness ==
    /\ pc = "L116"
    /\ raisedAt = "L78"
    /\ i = DHT_pulses * 2 - 2
    /\ report = [stream |-> "warning", message |-> "Timed out reading data pulse"]

\* pcnt[2] + pcnt[4] + ... + pcnt[2 * n]
RECURSIVE LowSumTo(_, _)
LowSumTo(pcnt, n) == IF n = 0 THEN 0 ELSE pcnt[2 * n] + LowSumTo(pcnt, n - 1)

\* q is the floor of s / 41
IsFloorOf41(q, s) == 41 * q <= s /\ s < 41 * (q + 1)

\* C14: the threshold is the integer quotient of the sum of the low-duration
\* counters at the even indices 2..80 by 41 (indices 0, 1 and the highs do
\* not enter); it is computed before the first bit is classified and is not
\* changed afterwards.
C14_ThresholdIsFloorQuotient ==
    [][/\ threshold' # -1 =>
             IsFloorOf41(threshold', LowSumTo(pulse_counter', 40))
       /\ data' # data => (threshold # -1 /\ threshold' = threshold)
       /\ threshold # -1 => threshold' = threshold]_vars

\* lows of 50 after a response pair of another length gave threshold 48,
\* and the bits were decoded with it
C14_Witness ==
    /\ data # <<>>
    /\ threshold = 48
    /\ pulse_counter[2] = 50
    /\ pulse_counter[80] = 50
    /\ pulse_counter[3] # 50

\* the value of the 8 bits classified from the highs at the odd indices
\* 3 + 16k, 5 + 16k, ..., 17 + 16k, the first as most significant bit
ByteFromHighs(pcnt, thr, k) ==
    LET b(m) == IF pcnt[3 + 16 * k + 2 * m] >= thr THEN 1 ELSE 0
    IN  128 * b(0) + 64 * b(1) + 32 * b(2) + 16 * b(3)
        + 8 * b(4) + 4 * b(5) + 2 * b(6) + b(7)

\* C15: decoding shifts exactly 8 bits into each of the 5 bytes: byte k is
\* built most significant bit first from the highs at odd indices
\* 3+16k..17+16k (byte 4, the checksum, from the last 8 data pulses), and
\* every decoded byte is in 0..255.
C15_EightBitsPerByte ==
    data # <<>> =>
        /\ DOMAIN data = 0..4
        /\ \A k \in 0..4 :
              /\ data[k] \in 0..255
              /\ data[k] = ByteFromHighs(pulse_counter, threshold, k)

\* the frame 0x4B 0x02 0x1A 0x00 0x65 was decoded, the checksum from the
\* highs at indices 67..81
C15_Witness ==
    /\ data = (0 :> 75 @@ 1 :> 2 @@ 2 :> 26 @@ 3 :> 0 @@ 4 :> 101)
    /\ ByteFromHighs(pulse_counter, threshold, 4) = 101

\* the read is in, or past, the steps that follow the sampling loops
PastSampling ==
    \/ pc \in {"L81", "L84", "L94", "L104", "returned"}
    \/ pc = "raised" /\ raisedAt = "L108"

\* C16: the threshold is computed and the bits are decoded only after all
\* 82 half-pulse counters were captured with no timeout, and every counter
\* is then in 0..299; a read that ended with a timeout has no threshold, no
\* decoded byte and no reading.
C16_DecodeOnlyAfterFullCapture ==
    /\ (HandedOff /\ (PastSampling \/ threshold # -1 \/ data # <<>>
                        \/ retval # NoValue)) =>
          /\ PastSampling
          /\ i = DHT_pulses * 2 - 2
          /\ SamplingCompleted
          /\ \A k \in 0..81 : pulse_counter[k] \in 0..299
    /\ TimedOut =>
          /\ threshold = -1
          /\ data = <<>>
          /\ retval = NoValue
          /\ run # NoStuck

\* a train with a counter of 299, one iteration short of the timeout, has
\* been decoded
C16_Witness ==
    /\ pc = "L104"
    /\ threshold # -1
    /\ data # <<>>
    /\ \E k \in 0..81 : pulse_counter[k] = 299

\* the read is sampling, or its sampling ended with a timeout
BeforeAllComplete ==
    pc \in {"L62", "L70", "L75"} \/ TimedOut

\* C17: one watchdog for every polling loop.  After the hand-off to input
\* mode the read ends with a timeout exactly when the samples taken so far
\* end with 301 samples of one level before all 82 half-pulses are complete;
\* 300 or fewer identical samples in a row never time out, in the start wait
\* or in a low or high half-pulse.  A line stuck high gives the start
\* timeout, a line stuck low the pulse timeout of half-pulse 0.
C17_UniformWatchdog ==
    /\ (HandedOff /\ samples > 0) =>
          /\ streak.len \in 1..301
          /\ TimedOut <=> streak.len = 301
          /\ (BeforeAllComplete /\ streak.len <= 300) =>
                pc \in {"L62", "L70", "L75"}
    /\ (HandedOff /\ samples = 0) => pc = "L62"
    /\ TimedOut =>
          /\ raisedAt = "L64" <=> (streak.level = 1 /\ samples = 301)
          /\ raisedAt = "L73" => streak.level = 0
          /\ raisedAt = "L78" => streak.level = 1
          /\ (streak.level = 0 /\ samples = 301) =>
                (raisedAt = "L73" /\ i = 0)
          /\ exc.type = "ReadTimeoutError"

\* a line low from the first sample on has ended the read with the pulse
\* timeout of half-pulse 0 on its 301st sample
C17_Witness ==
    /\ pc = "raised"
    /\ raisedAt = "L73"
    /\ i = 0
    /\ samples = 301
    /\ streak = [level |-> 0, len |-> 301]
    /\ sensor.stuck = 0

\* the line samples a read can have taken when it is at pc: 301 for the
\* start wait and 300 for every half-pulse before the one being polled,
\* whose counter stands for the samples of its own loop
SampleBudget ==
    IF pc = "L62" THEN c + 1
    ELSE IF pc = "L70" THEN 301 + 300 * i + pulse_counter[i]
    ELSE IF pc = "L75" THEN 301 + 300 * (i + 1) + pulse_counter[i + 1]
    ELSE 301 + 82 * 300

\* C18: whatever the line does, a read takes at most 301 + 82 * 300 = 24901
\* line samples: every step of a polling loop takes one more sample and no
\* other step of the read takes any, the start wait takes at most 301, each
\* half-pulse at most 300, and the polling is over once 24901 are taken.
C18_ReadTerminates ==
    [][/\ pc \in {"L62", "L70", "L75"} => samples' = samples + 1
       /\ HandedOff' =>
             /\ samples' <= SampleBudget'
             /\ samples' <= 24901
             /\ c' \in 0..300
             /\ samples' = 24901 => pc' \notin {"L62", "L70", "L75"}
       /\ pc \notin {"L60", "L62", "L70", "L75"} => samples' = samples]_vars

\* the longest transmission was read to its end with the 24901st sample
C18_Witness ==
    /\ samples = 24901
    /\ ReadEnded
    /\ ~TimedOut
    /\ c = 300
    /\ \A k \in 0..81 : pulse_counter[k] = 299

\* C19: on a read whose sampling completes without a timeout, the two
\* relative adjustments (niceness -20 before sampling, +20 after it) leave
\* the niceness at the value it had before the read, for every starting
\* niceness in -20..19 with saturation at the limits of the range.
C19_NicenessRestored ==
    (PastSampling /\ pc # "L81") => nice = nice0

=============================================================================
